---- MODULE Spec2Model ----
(***************************************************************************)
(* A model of the labour-market simulation: SimpleCapitalistModel (the     *)
(* Economy), SimpleWorkerAgent and SimpleFirmAgent.                        *)
(*                                                                         *)
(* Numbers.  The program computes in floating point; the model computes in *)
(* integers: money in cents, hourly wage rates in cents per hour, tax      *)
(* rates, wage multipliers, skill-mix preferences and ownership shares in  *)
(* percent, interest rates in tenths of a percent per year, productivity   *)
(* in hundredths, financial stress in thousandths, the price index in      *)
(* millionths.  A product is divided by its scale with \div (rounding      *)
(* down).  Every random draw of the program is a choice from a small set   *)
(* holding the ends of the range the program draws from.  compute_gini is   *)
(* the exception: it is computed in rounded floating point, see            *)
(* MantissaBits.                                                           *)
(***************************************************************************)
EXTENDS Integers, Sequences, FiniteSets, TLC

\* ------------------------------------------------------------- bounds
\* Number of workers and of firms the Economy is constructed with, and the
\* number of Economy.step() calls of a run.
NumWorkers == 3
NumFirms == 2
MaxSteps == 3
\* Firm size.  The constructor draws max_workers from 30..80; the model
\* scales it down so that a roster can fill up with NumWorkers workers.
MaxWorkersModel == 5
\* Direct WorkerAgent.step() calls on a worker whose fields were assigned.
MaxFixtureSteps == 3
\* Where the rounding of a floating-point operation matters (compute_gini),
\* the model rounds as the program does, to the nearest value with a
\* significand of MantissaBits bits, ties to even.  The program's floats
\* have 53 bits.
MantissaBits == 9
\* Largest population compute_gini is applied to on its own.
MaxPopulation == 3
\* Calls of _make_employment_decisions() on a firm whose fields were
\* assigned.
MaxDecisions == 3
\* The constructor's arguments num_workers and num_firms, where they are
\* inputs, are drawn from -MaxArgument..MaxArgument.
MaxArgument == 5

Workers == 1..NumWorkers
Firms == 1..NumFirms
Skills == {"low", "medium", "high"}
NoFirm == 0

\* ------------------------------------------------- program constants
WorkHours == 40
BaseNeeds == 50000
BaseValuePerHour == 25
FireProfitThreshold == -50000
FireRosterThreshold == 5
HiresPerStep == 3
FireProbability == 45
MinPaymentFloor == 2000
GrowthWealthThreshold == 1000000
WeeklyInflation == 381

Min2(a, b) == IF a < b THEN a ELSE b
Max2(a, b) == IF a > b THEN a ELSE b

\* ------------------------------------------------------ random draws
\* random.random(), in percent, where it is compared with a probability.
UnitDraws == {0, 99}
\* Which end of a random.uniform range is drawn: 1 the low end, 2 the high
\* end.  The wage multiplier and the ownership share take either end; the
\* tax rate of a pay is drawn at the high end of the worker's bracket.
MultiplierEnds == {1, 2}
ShareEnds == {1, 2}
TaxEnds == {2}
\* random.random() < 0.3 and random.uniform(1.001, 1.003): no growth (0), or
\* a growth of 1 or 3 thousandths.
GrowthDraws == {0, 1, 3}
\* random.uniform(-0.001, 0.001), in millionths.  The price index feeds no
\* agent's step; one draw stands for the range.
PriceNoise == {1000}

Pick(lo, hi, e) == IF e = 1 THEN lo ELSE hi

\* ---------------------------------------------------------- sequences
InSeq(s, x) == \E i \in 1..Len(s) : s[i] = x
FirstIndex(s, x) == CHOOSE i \in 1..Len(s) : s[i] = x /\ \A j \in 1..(i - 1) : s[j] # x
\* list.remove(x): the first occurrence goes.
RemoveFirst(s, x) ==
    LET k == FirstIndex(s, x)
    IN  [i \in 1..(Len(s) - 1) |-> IF i < k THEN s[i] ELSE s[i + 1]]
CountIn(s, x) == Cardinality({i \in 1..Len(s) : s[i] = x})

\* ------------------------------------------- construction parameters
\* What the constructors draw for each agent: one value of each range.
Kind(id) == ((id - 1) % 3) + 1
SkillOf(id) == CASE Kind(id) = 1 -> "low" [] Kind(id) = 2 -> "medium" [] OTHER -> "high"
InitialWealth(id) == CASE Kind(id) = 1 -> 0 [] Kind(id) = 2 -> 150000 [] OTHER -> 500000
ProductivityOf(id) == CASE Kind(id) = 1 -> 70 [] Kind(id) = 2 -> 100 [] OTHER -> 130
DebtCapacityOf(id) == CASE Kind(id) = 1 -> 500000 [] Kind(id) = 2 -> 1500000 [] OTHER -> 1000000
InterestRateOf(id) == CASE Kind(id) = 1 -> 100 [] Kind(id) = 2 -> 260 [] OTHER -> 180
OwnsFirmOf(id) == Kind(id) = 3
SkillMultiplier(skill) == CASE skill = "low" -> 80 [] skill = "medium" -> 100 [] OTHER -> 130
BasicNeedsOf(skill) == (BaseNeeds * SkillMultiplier(skill)) \div 100

\* SimpleWorkerAgent.__init__
NewWorker(skill, wealth0, productivity, capacity, rate, owns) ==
    [ skill_level |-> skill,
      wage |-> 0,
      is_employed |-> FALSE,
      employer |-> NoFirm,
      wealth |-> IF wealth0 < 0 THEN 0 ELSE wealth0,
      debt |-> IF wealth0 < 0 THEN Max2(0, -wealth0) ELSE 0,
      total_wages_earned |-> 0,
      total_taxes_paid |-> 0,
      weeks_unemployed |-> 0,
      financial_stress |-> 0,
      debt_capacity |-> capacity,
      interest_rate |-> rate,
      is_bankrupt |-> FALSE,
      productivity |-> productivity,
      owns_firm |-> owns,
      basic_needs |-> BasicNeedsOf(skill) ]

\* ------------------------------------------------- SimpleWorkerAgent
get_productive_value(w) == WorkHours * w.productivity * BaseValuePerHour

TaxLow(skill) == CASE skill = "high" -> 20 [] skill = "medium" -> 12 [] OTHER -> 5
TaxHigh(skill) == CASE skill = "high" -> 30 [] skill = "medium" -> 20 [] OTHER -> 12
get_tax_rate(w, e) == Pick(TaxLow(w.skill_level), TaxHigh(w.skill_level), e)

BaseReservation(skill) == CASE skill = "high" -> 2000 [] skill = "medium" -> 1200 [] OTHER -> 800

get_reservation_wage(w) ==
    LET base == BaseReservation(w.skill_level)
        afterWeeks ==
            IF ~w.is_employed /\ w.weeks_unemployed > 4
            THEN (base * Min2(70, 100 - w.weeks_unemployed * 5)) \div 100
            ELSE base
        afterDebt ==
            IF w.debt > 0
            THEN (afterWeeks * Max2(60, 100 - (w.debt * 40) \div w.debt_capacity)) \div 100
            ELSE afterWeeks
    IN  afterDebt * WorkHours

\* get_unmet_needs without the cap of the affordable needs at basic_needs.
get_unmet_needs_uncapped(w) == w.basic_needs - w.wealth

get_unmet_needs(w) == w.basic_needs - Min2(w.wealth, w.basic_needs)

StressSum(w) ==
    (IF ~w.is_employed THEN 400 ELSE 0)
    + (IF w.debt > 0 THEN (w.debt * 300) \div w.debt_capacity ELSE 0)
    + Min2((get_unmet_needs(w) * 300) \div w.basic_needs, 300)

\* calculate_financial_stress without the cap at 1.0.
calculate_financial_stress_uncapped(w) == [w EXCEPT !.financial_stress = StressSum(w)]

calculate_financial_stress(w) == [w EXCEPT !.financial_stress = Min2(StressSum(w), 1000)]

\* work_for_firm that leaves employer as it was.
work_for_firm_keeps_employer(w, firm, firmProfit, wage_rate, taxEnd, shareEnd) ==
    IF w.is_employed THEN w
    ELSE LET gross_pay == wage_rate * WorkHours
             taxes == (gross_pay * get_tax_rate(w, taxEnd)) \div 100
         IN  [w EXCEPT !.is_employed = TRUE,
                       !.wage = wage_rate,
                       !.weeks_unemployed = 0,
                       !.wealth = w.wealth + (gross_pay - taxes),
                       !.total_wages_earned = w.total_wages_earned + gross_pay,
                       !.total_taxes_paid = w.total_taxes_paid + taxes]

\* work_for_firm(firm, wage_rate): firmProfit is firm.profit at the call,
\* taxEnd and shareEnd the ends drawn for the tax rate and the ownership
\* share.
\* work_for_firm that leaves weeks_unemployed as it was.
work_for_firm_keeps_weeks(w, firm, firmProfit, wage_rate, taxEnd, shareEnd) ==
    IF w.is_employed THEN w
    ELSE LET gross_pay == wage_rate * WorkHours
             taxes == (gross_pay * get_tax_rate(w, taxEnd)) \div 100
             net_pay == gross_pay - taxes
             dividend == IF w.owns_firm /\ firmProfit > 0
                         THEN (firmProfit * Pick(1, 5, shareEnd)) \div 100
                         ELSE 0
         IN  [w EXCEPT !.is_employed = TRUE,
                       !.employer = firm,
                       !.wage = wage_rate,
                       !.wealth = w.wealth + net_pay + dividend,
                       !.total_wages_earned = w.total_wages_earned + gross_pay,
                       !.total_taxes_paid = w.total_taxes_paid + taxes]

\* work_for_firm that credits the week's pay at the current wage to a
\* worker that is employed already.
work_for_firm_pays_every_week(w, firm, firmProfit, wage_rate, taxEnd, shareEnd) ==
    LET rate == IF w.is_employed THEN w.wage ELSE wage_rate
        gross_pay == rate * WorkHours
        taxes == (gross_pay * get_tax_rate(w, taxEnd)) \div 100
        net_pay == gross_pay - taxes
        dividend == IF ~w.is_employed /\ w.owns_firm /\ firmProfit > 0
                    THEN (firmProfit * Pick(1, 5, shareEnd)) \div 100
                    ELSE 0
    IN  [w EXCEPT !.is_employed = TRUE,
                  !.employer = IF w.is_employed THEN w.employer ELSE firm,
                  !.wage = rate,
                  !.weeks_unemployed = 0,
                  !.wealth = w.wealth + net_pay + dividend,
                  !.total_wages_earned = w.total_wages_earned + gross_pay,
                  !.total_taxes_paid = w.total_taxes_paid + taxes]

\* work_for_firm without the early return for a worker that is employed.
work_for_firm_pays_employed(w, firm, firmProfit, wage_rate, taxEnd, shareEnd) ==
    LET gross_pay == wage_rate * WorkHours
        taxes == (gross_pay * get_tax_rate(w, taxEnd)) \div 100
        net_pay == gross_pay - taxes
        dividend == IF w.owns_firm /\ firmProfit > 0
                    THEN (firmProfit * Pick(1, 5, shareEnd)) \div 100
                    ELSE 0
    IN  [w EXCEPT !.is_employed = TRUE,
                  !.employer = firm,
                  !.wage = wage_rate,
                  !.weeks_unemployed = 0,
                  !.wealth = w.wealth + net_pay + dividend,
                  !.total_wages_earned = w.total_wages_earned + gross_pay,
                  !.total_taxes_paid = w.total_taxes_paid + taxes]

work_for_firm(w, firm, firmProfit, wage_rate, taxEnd, shareEnd) ==
    IF w.is_employed THEN w
    ELSE LET gross_pay == wage_rate * WorkHours
             taxes == (gross_pay * get_tax_rate(w, taxEnd)) \div 100
             net_pay == gross_pay - taxes
             dividend == IF w.owns_firm /\ firmProfit > 0
                         THEN (firmProfit * Pick(1, 5, shareEnd)) \div 100
                         ELSE 0
         IN  [w EXCEPT !.is_employed = TRUE,
                       !.employer = firm,
                       !.wage = wage_rate,
                       !.weeks_unemployed = 0,
                       !.wealth = w.wealth + net_pay + dividend,
                       !.total_wages_earned = w.total_wages_earned + gross_pay,
                       !.total_taxes_paid = w.total_taxes_paid + taxes]

\* lose_job that leaves the wage as it was.
lose_job_keeps_wage(w) == [w EXCEPT !.is_employed = FALSE, !.employer = NoFirm]

lose_job(w) == [w EXCEPT !.is_employed = FALSE, !.employer = NoFirm, !.wage = 0]

\* handle_debt_mechanics that adds no interest.
handle_debt_mechanics_no_interest(w) ==
    IF w.debt > 0
    THEN LET min_payment == Max2((w.debt * 2) \div 100, MinPaymentFloor)
             payment == Min2(min_payment, w.debt)
         IN  IF w.wealth >= min_payment
             THEN [w EXCEPT !.wealth = w.wealth - payment, !.debt = w.debt - payment]
             ELSE w
    ELSE w

\* handle_debt_mechanics that assigns is_bankrupt the outcome of its test,
\* so that a worker whose test fails is solvent again.
handle_debt_mechanics_recovers(w) ==
    IF w.debt > 0
    THEN LET d1 == w.debt + (w.debt * w.interest_rate) \div 52000
             min_payment == Max2((d1 * 2) \div 100, MinPaymentFloor)
             pays == w.wealth >= min_payment
             payment == Min2(min_payment, d1)
             w2 == IF pays
                   THEN [w EXCEPT !.wealth = w.wealth - payment, !.debt = d1 - payment]
                   ELSE [w EXCEPT !.debt = d1]
         IN  IF w2.debt > w2.debt_capacity /\ get_unmet_needs(w2) > w2.basic_needs * 2
             THEN [w2 EXCEPT !.is_bankrupt = TRUE, !.debt = w2.debt_capacity]
             ELSE [w2 EXCEPT !.is_bankrupt = FALSE]
    ELSE w

\* handle_debt_mechanics that always pays the minimum payment in full, also
\* when the debt is smaller.
handle_debt_mechanics_pays_minimum(w) ==
    IF w.debt > 0
    THEN LET d1 == w.debt + (w.debt * w.interest_rate) \div 52000
             min_payment == Max2((d1 * 2) \div 100, MinPaymentFloor)
             pays == w.wealth >= min_payment
             w2 == IF pays
                   THEN [w EXCEPT !.wealth = w.wealth - min_payment, !.debt = d1 - min_payment]
                   ELSE [w EXCEPT !.debt = d1]
         IN  IF w2.debt > w2.debt_capacity /\ get_unmet_needs(w2) > w2.basic_needs * 2
             THEN [w2 EXCEPT !.is_bankrupt = TRUE, !.debt = w2.debt_capacity]
             ELSE w2
    ELSE w

\* handle_debt_mechanics whose bankruptcy test looks at the debt alone.
handle_debt_mechanics_capacity_only(w) ==
    IF w.debt > 0
    THEN LET d1 == w.debt + (w.debt * w.interest_rate) \div 52000
             min_payment == Max2((d1 * 2) \div 100, MinPaymentFloor)
             payment == Min2(min_payment, d1)
             w2 == IF w.wealth >= min_payment
                   THEN [w EXCEPT !.wealth = w.wealth - payment, !.debt = d1 - payment]
                   ELSE [w EXCEPT !.debt = d1]
         IN  IF w2.debt > w2.debt_capacity
             THEN [w2 EXCEPT !.is_bankrupt = TRUE, !.debt = w2.debt_capacity]
             ELSE w2
    ELSE w

handle_debt_mechanics(w) ==
    IF w.debt > 0
    THEN LET d1 == w.debt + (w.debt * w.interest_rate) \div 52000
             min_payment == Max2((d1 * 2) \div 100, MinPaymentFloor)
             pays == w.wealth >= min_payment
             payment == Min2(min_payment, d1)
             w2 == IF pays
                   THEN [w EXCEPT !.wealth = w.wealth - payment, !.debt = d1 - payment]
                   ELSE [w EXCEPT !.debt = d1]
         IN  IF w2.debt > w2.debt_capacity /\ get_unmet_needs(w2) > w2.basic_needs * 2
             THEN [w2 EXCEPT !.is_bankrupt = TRUE, !.debt = w2.debt_capacity]
             ELSE w2
    ELSE w

\* The needs branch with the shortfall taken from wealth instead of debt.
PayNeeds_overdraws(w) ==
    IF ~w.is_employed
    THEN [w EXCEPT !.weeks_unemployed = w.weeks_unemployed + 1,
                   !.wealth = w.wealth - w.basic_needs]
    ELSE IF w.wealth >= w.basic_needs
         THEN [w EXCEPT !.wealth = w.wealth - w.basic_needs]
         ELSE w

\* The needs branch with the employed worker borrowing its shortfall too.
PayNeeds_employed_borrows(w) ==
    LET w1 == IF ~w.is_employed
              THEN [w EXCEPT !.weeks_unemployed = w.weeks_unemployed + 1]
              ELSE w
    IN  IF w1.wealth >= w1.basic_needs
        THEN [w1 EXCEPT !.wealth = w1.wealth - w1.basic_needs]
        ELSE [w1 EXCEPT !.debt = w1.debt + (w1.basic_needs - w1.wealth), !.wealth = 0]

\* The needs branch of step().
PayNeeds(w) ==
    IF ~w.is_employed
    THEN LET w1 == [w EXCEPT !.weeks_unemployed = w.weeks_unemployed + 1]
         IN  IF w1.wealth >= w1.basic_needs
             THEN [w1 EXCEPT !.wealth = w1.wealth - w1.basic_needs]
             ELSE [w1 EXCEPT !.debt = w1.debt + (w1.basic_needs - w1.wealth), !.wealth = 0]
    ELSE IF w.wealth >= w.basic_needs
         THEN [w EXCEPT !.wealth = w.wealth - w.basic_needs]
         ELSE w

DecayRate(skill) == CASE skill = "high" -> 2 [] skill = "medium" -> 3 [] OTHER -> 5

WealthDecay(w) ==
    IF ~w.is_employed /\ w.wealth > 0
    THEN [w EXCEPT !.wealth = w.wealth - (w.wealth * DecayRate(w.skill_level)) \div 100]
    ELSE w

\* g = 0: random.random() >= 0.3; otherwise the growth in thousandths.
WealthGrowth(w, g) ==
    IF w.skill_level = "high" /\ w.wealth > GrowthWealthThreshold
    THEN [w EXCEPT !.wealth = w.wealth + (w.wealth * g) \div 1000]
    ELSE w

\* A step that ends with the worker leaving its job.
worker_step_loses_job(w, g) ==
    lose_job(WealthGrowth(WealthDecay(handle_debt_mechanics(PayNeeds(calculate_financial_stress(w)))), g))

\* SimpleWorkerAgent.step()
worker_step(w, g) ==
    WealthGrowth(WealthDecay(handle_debt_mechanics(PayNeeds(calculate_financial_stress(w)))), g)

\* --------------------------------------------------- SimpleFirmAgent
WageRatesOf(id) ==
    IF id % 2 = 1 THEN [high |-> 4500, medium |-> 2500, low |-> 1800]
                  ELSE [high |-> 2500, medium |-> 1500, low |-> 800]
PreferredMixOf(id) ==
    IF id % 2 = 1 THEN [high |-> 19, medium |-> 29, low |-> 52]
                  ELSE [high |-> 33, medium |-> 22, low |-> 45]
FirmCapitalOf(id) == IF id % 2 = 1 THEN 5000000 ELSE 20000000
FirmTaxRateOf(id) == IF id % 2 = 1 THEN 35 ELSE 20

\* SimpleFirmAgent.__init__
NewFirm(capital, max_workers, rates, mix, tax) ==
    [ capital |-> capital,
      profit |-> 0,
      total_surplus_value |-> 0,
      wages_paid |-> 0,
      taxes_paid |-> 0,
      workers |-> << >>,
      max_workers |-> max_workers,
      preferred_skill_mix |-> mix,
      wage_rates |-> rates,
      tax_rate |-> tax ]

\* A world is the part of the Economy the firms' operations read and write:
\* W the worker agents, F the firm agents, emp and unemp the Economy's
\* employed_workers and unemployed_workers lists.
CountSkill(roster, W, skill) ==
    Cardinality({i \in 1..Len(roster) : W[roster[i]].skill_level = skill})

\* get_current_skill_mix()[skill] < preferred_skill_mix[skill]
BelowPreferredMix(firm, W, skill) ==
    IF Len(firm.workers) = 0
    THEN 0 < firm.preferred_skill_mix[skill]
    ELSE CountSkill(firm.workers, W, skill) * 100
            < firm.preferred_skill_mix[skill] * Len(firm.workers)

\* The wage offer without the reservation wage as its floor.
calculate_worker_wage_offer_no_floor(firm, W, w, e) ==
    LET base_hourly_rate == firm.wage_rates[w.skill_level]
        wage_multiplier == IF Len(firm.workers) = 0
                                \/ Cardinality({i \in 1..Len(firm.workers) :
                                        W[firm.workers[i]].skill_level = w.skill_level}) * 100
                                      < firm.preferred_skill_mix[w.skill_level] * Len(firm.workers)
                           THEN Pick(110, 130, e)
                           ELSE Pick(80, 100, e)
    IN  ((base_hourly_rate * wage_multiplier) \div 100) * WorkHours

\* The weekly wage offered; e is the end drawn for the multiplier.
calculate_worker_wage_offer(firm, W, w, e) ==
    LET base_hourly_rate == firm.wage_rates[w.skill_level]
        wage_multiplier == IF BelowPreferredMix(firm, W, w.skill_level)
                           THEN Pick(110, 130, e)
                           ELSE Pick(80, 100, e)
        final_hourly_rate == (base_hourly_rate * wage_multiplier) \div 100
        weekly_wage == final_hourly_rate * WorkHours
    IN  Max2(weekly_wage, get_reservation_wage(w))

\* hire_worker that leaves the worker in unemployed_workers.
hire_worker_keeps_unemployed(world, f, id, hourly_wage, taxEnd, shareEnd) ==
    [W |-> [world.W EXCEPT ![id] =
               work_for_firm(world.W[id], f, world.F[f].profit, hourly_wage, taxEnd, shareEnd)],
     F |-> [world.F EXCEPT ![f].workers = Append(world.F[f].workers, id)],
     emp |-> IF ~InSeq(world.emp, id) THEN Append(world.emp, id) ELSE world.emp,
     unemp |-> world.unemp]

hire_worker(world, f, id, hourly_wage, taxEnd, shareEnd) ==
    LET F1 == [world.F EXCEPT ![f].workers = Append(world.F[f].workers, id)]
        W1 == [world.W EXCEPT ![id] =
                  work_for_firm(world.W[id], f, world.F[f].profit, hourly_wage, taxEnd, shareEnd)]
        unemp1 == IF InSeq(world.unemp, id) THEN RemoveFirst(world.unemp, id) ELSE world.unemp
        emp1 == IF ~InSeq(world.emp, id) THEN Append(world.emp, id) ELSE world.emp
    IN  [W |-> W1, F |-> F1, emp |-> emp1, unemp |-> unemp1]

fire_worker(world, f, id) ==
    IF InSeq(world.F[f].workers, id)
    THEN LET F1 == [world.F EXCEPT ![f].workers = RemoveFirst(world.F[f].workers, id)]
             W1 == [world.W EXCEPT ![id] = lose_job(world.W[id])]
             emp1 == IF InSeq(world.emp, id) THEN RemoveFirst(world.emp, id) ELSE world.emp
             unemp1 == IF ~InSeq(world.unemp, id) THEN Append(world.unemp, id) ELSE world.unemp
         IN  [W |-> W1, F |-> F1, emp |-> emp1, unemp |-> unemp1]
    ELSE world

\* hire_probability of should_hire_worker, in percent.
HireProbability(firm, W, skill) ==
    LET base == IF BelowPreferredMix(firm, W, skill) THEN 80 ELSE 30
    IN  IF firm.profit > 0 THEN (base * 15) \div 10
        ELSE IF firm.profit < -100000 THEN (base * 3) \div 10
        ELSE base

\* should_hire_worker(worker): the world it leaves and the value returned.
\* d is the value of random.random() in percent; a hire passes the weekly
\* wage offer to hire_worker.
\* should_hire_worker that puts a candidate its draw rejects on the roster.
should_hire_worker_lists_rejected(world, f, id, d, e, taxEnd, shareEnd) ==
    LET firm == world.F[f]
    IN  IF ~InSeq(firm.workers, id)
        THEN IF Len(firm.workers) >= firm.max_workers
             THEN [world |-> world, result |-> FALSE]
             ELSE IF d < HireProbability(firm, world.W, world.W[id].skill_level)
                  THEN [world |-> hire_worker(world, f, id,
                                     calculate_worker_wage_offer(firm, world.W, world.W[id], e),
                                     taxEnd, shareEnd),
                        result |-> TRUE]
                  ELSE [world |-> [world EXCEPT !.F[f].workers = Append(firm.workers, id)],
                        result |-> FALSE]
        ELSE [world |-> world, result |-> FALSE]

should_hire_worker(world, f, id, d, e, taxEnd, shareEnd) ==
    LET firm == world.F[f]
    IN  IF ~InSeq(firm.workers, id)
        THEN IF Len(firm.workers) >= firm.max_workers
             THEN [world |-> world, result |-> FALSE]
             ELSE IF d < HireProbability(firm, world.W, world.W[id].skill_level)
                  THEN [world |-> hire_worker(world, f, id,
                                     calculate_worker_wage_offer(firm, world.W, world.W[id], e),
                                     taxEnd, shareEnd),
                        result |-> TRUE]
                  ELSE [world |-> world, result |-> FALSE]
        ELSE [world |-> world, result |-> FALSE]

\* One iteration of the hiring loop of _make_employment_decisions, after its
\* break test: the candidate id is random.choice(unemployed_workers), local
\* the loop's own list.  e2 is the end drawn for the second wage offer.
HireIteration(world, local, f, id, d, e, taxEnd, shareEnd, e2) ==
    LET r == should_hire_worker(world, f, id, d, e, taxEnd, shareEnd)
    IN  IF r.result
        THEN LET wage_offer ==
                     calculate_worker_wage_offer(r.world.F[f], r.world.W, r.world.W[id], e2)
             IN  IF wage_offer >= get_reservation_wage(r.world.W[id])
                 THEN [world |-> hire_worker(r.world, f, id, wage_offer \div WorkHours,
                                             taxEnd, shareEnd),
                       local |-> RemoveFirst(local, id),
                       result |-> TRUE]
                 ELSE [world |-> r.world, local |-> local, result |-> TRUE]
        ELSE [world |-> r.world, local |-> local, result |-> FALSE]

\* The production loop of step() from roster position i on.  acc holds the
\* worker agents, total_production_value and wages_paid so far.  The draws
\* of a pass matter only when work_for_firm acts, on a worker that is not
\* employed.
RECURSIVE ProductionLoop(_, _, _, _)
ProductionLoop(f, firm, i, acc) ==
        IF i > Len(firm.workers) THEN {acc}
        ELSE LET id == firm.workers[i]
                 w == acc.W[id]
                 pass(e, t, s) ==
                     LET w1 == work_for_firm(w, f, firm.profit,
                                   calculate_worker_wage_offer(firm, acc.W, w, e) \div WorkHours,
                                   t, s)
                     IN  [W |-> [acc.W EXCEPT ![id] = w1],
                          total_production_value |->
                              acc.total_production_value + get_productive_value(w),
                          wages_paid |-> acc.wages_paid + w1.wage]
                 draws == IF w.is_employed THEN {<<1, 1, 1>>}
                          ELSE MultiplierEnds \X TaxEnds \X ShareEnds
             IN  UNION {ProductionLoop(f, firm, i + 1, pass(x[1], x[2], x[3])) : x \in draws}

\* The settlement with the tax computed on a negative surplus as well.
SettleProduction_taxes_losses(world, f, acc) ==
    LET surplus == acc.total_production_value - acc.wages_paid
        taxes == (surplus * world.F[f].tax_rate) \div 100
        profit == surplus - taxes
    IN  [world EXCEPT !.W = acc.W,
                      !.F[f].total_surplus_value = surplus,
                      !.F[f].wages_paid = acc.wages_paid,
                      !.F[f].taxes_paid = taxes,
                      !.F[f].profit = profit,
                      !.F[f].capital = world.F[f].capital + profit]

\* step() up to the capital update, for one outcome acc of the loop.
SettleProduction(world, f, acc) ==
    LET surplus == acc.total_production_value - acc.wages_paid
        taxes == Max2(0, (surplus * world.F[f].tax_rate) \div 100)
        profit == surplus - taxes
    IN  [world EXCEPT !.W = acc.W,
                      !.F[f].total_surplus_value = surplus,
                      !.F[f].wages_paid = acc.wages_paid,
                      !.F[f].taxes_paid = taxes,
                      !.F[f].profit = profit,
                      !.F[f].capital = world.F[f].capital + profit]

ProductionOutcomes(world, f) ==
    {SettleProduction(world, f, acc) :
        acc \in ProductionLoop(f, world.F[f], 1,
                    [W |-> world.W, total_production_value |-> 0, wages_paid |-> 0])}

\* A firing guard that looks at the profit alone.
FiringApplies_profit_only(firm) == firm.profit < FireProfitThreshold

\* The firing decision of _make_employment_decisions: d is the value of
\* random.random() in percent, i the roster position random.choice takes.
FiringApplies(firm) == firm.profit < FireProfitThreshold /\ Len(firm.workers) > FireRosterThreshold
\* A firing decision that fires the drawn worker and the first on the
\* roster left.
FiringDecision_fires_two(world, f, d, i) ==
    IF FiringApplies(world.F[f]) /\ d < FireProbability
    THEN LET w1 == fire_worker(world, f, world.F[f].workers[i])
         IN  fire_worker(w1, f, w1.F[f].workers[1])
    ELSE world

FiringDecision(world, f, d, i) ==
    IF FiringApplies(world.F[f]) /\ d < FireProbability
    THEN fire_worker(world, f, world.F[f].workers[i])
    ELSE world

\* surplus value over wages paid, the rate of surplus value, in hundredths.
get_exploitation_rate_over_wages(firm) ==
    IF firm.wages_paid > 0
    THEN (firm.total_surplus_value * 100) \div firm.wages_paid
    ELSE 0

\* get_exploitation_rate(), in hundredths, rounded down.
get_exploitation_rate(firm) ==
    LET total_value == firm.total_surplus_value + firm.wages_paid
    IN  IF total_value > 0
        THEN (firm.total_surplus_value * 100) \div total_value
        ELSE 0

\* ------------------------------------------------------------- state
VARIABLES
    worker_agents,       \* worker id -> the worker's fields
    firm_agents,         \* firm id -> the firm's fields, its roster in workers
    employed_workers,    \* the Economy's list of employed workers
    unemployed_workers,  \* the Economy's list of unemployed workers
    price_index,
    model_vars,          \* the collector's records
    steps,               \* Economy.step() calls completed
    pc,                  \* where Economy.step() stands
    cur,                 \* the agent whose step() is next or under way
    hire_local,          \* the hiring loop's own unemployed_workers list
    hire_left,           \* iterations the hiring loop still has
    last                 \* the operation that led to this state

vars == <<worker_agents, firm_agents, employed_workers, unemployed_workers, price_index,
          model_vars, steps, pc, cur, hire_local, hire_left, last>>

World == [W |-> worker_agents, F |-> firm_agents,
          emp |-> employed_workers, unemp |-> unemployed_workers]

NoWorker == NewWorker("low", 0, 0, 1, 0, FALSE)
\* op: the operation; id: the agent that ran it; who: the worker it fired or
\* hired (0: none); pre: the fields that worker (for a worker's step, the
\* worker itself) had before it.
Event(op, id, who, pre) == [op |-> op, id |-> id, who |-> who, pre |-> pre]

\* DataCollector.collect(): the reporters kept are "Employed Workers" and
\* "Workers in Debt"; "Average Financial Stress" calls
\* calculate_financial_stress() on every worker, which stores its result.
Collected(W, emp) ==
    [employed |-> Len(emp), in_debt |-> Cardinality({w \in DOMAIN W : W[w].debt > 0})]
AfterReporters(W) == [w \in DOMAIN W |-> calculate_financial_stress(W[w])]

\* sum(fn[x] for x in S)
RECURSIVE Sum(_, _)
Sum(fn, S) ==
    IF S = {} THEN 0
    ELSE LET x == CHOOSE y \in S : TRUE IN fn[x] + Sum(fn, S \ {x})

\* get_wage_share(): its two sums, and the share in thousandths.
TotalWages(W) == Sum([w \in DOMAIN W |-> W[w].wage], DOMAIN W)
TotalSurplus(F) == Sum([f \in DOMAIN F |-> F[f].total_surplus_value], DOMAIN F)
get_wage_share(W, F) ==
    LET total_output == TotalWages(W) + TotalSurplus(F)
    IN  IF total_output > 0 THEN (TotalWages(W) * 1000) \div total_output ELSE 0

RECURSIVE IdSeq(_)
IdSeq(n) == IF n = 0 THEN << >> ELSE Append(IdSeq(n - 1), n)

\* SimpleCapitalistModel.__init__
ConstructedWorkers ==
    [w \in Workers |-> NewWorker(SkillOf(w), InitialWealth(w), ProductivityOf(w),
                                 DebtCapacityOf(w), InterestRateOf(w), OwnsFirmOf(w))]
ConstructedFirms ==
    [f \in Firms |-> NewFirm(FirmCapitalOf(f), MaxWorkersModel, WageRatesOf(f),
                             PreferredMixOf(f), FirmTaxRateOf(f))]

Init ==
    /\ worker_agents = AfterReporters(ConstructedWorkers)
    /\ firm_agents = ConstructedFirms
    /\ employed_workers = << >>
    /\ unemployed_workers = IdSeq(NumWorkers)
    /\ price_index = 1000000
    /\ model_vars = <<Collected(ConstructedWorkers, << >>)>>
    /\ steps = 0
    /\ pc = "idle"
    /\ cur = 0
    /\ hire_local = << >>
    /\ hire_left = 0
    /\ last = Event("init", 0, 0, NoWorker)

\* ----------------------------------------------------------- actions
\* Economy.step(), the inflation update that opens it.
StepBegin ==
    /\ pc = "idle"
    /\ steps < MaxSteps
    /\ \E noise \in PriceNoise :
          price_index' = price_index + (price_index * (WeeklyInflation + noise)) \div 1000000
    /\ pc' = "workers"
    /\ cur' = 1
    /\ last' = Event("price", 0, 0, NoWorker)
    /\ UNCHANGED <<worker_agents, firm_agents, employed_workers, unemployed_workers,
                   model_vars, steps, hire_local, hire_left>>

\* A worker loop that hands over to the firms after its first worker.
WorkerStep_first_worker_only ==
    /\ pc = "workers"
    /\ \E g \in GrowthDraws :
          worker_agents' = [worker_agents EXCEPT ![cur] = worker_step(worker_agents[cur], g)]
    /\ last' = Event("worker_step", cur, cur, worker_agents[cur])
    /\ pc' = "firms" /\ cur' = 1
    /\ UNCHANGED <<firm_agents, employed_workers, unemployed_workers, price_index,
                   model_vars, steps, hire_local, hire_left>>

\* worker.step() of the loop over worker_agents.
WorkerStep ==
    /\ pc = "workers"
    /\ \E g \in GrowthDraws :
          worker_agents' = [worker_agents EXCEPT ![cur] = worker_step(worker_agents[cur], g)]
    /\ last' = Event("worker_step", cur, cur, worker_agents[cur])
    /\ IF cur < NumWorkers
       THEN pc' = "workers" /\ cur' = cur + 1
       ELSE pc' = "firms" /\ cur' = 1
    /\ UNCHANGED <<firm_agents, employed_workers, unemployed_workers, price_index,
                   model_vars, steps, hire_local, hire_left>>

\* Where Economy.step() goes when firm f's step() has returned.
AfterFirm(f) ==
    IF f < NumFirms
    THEN pc' = "firms" /\ cur' = f + 1
    ELSE pc' = "collect" /\ cur' = 0

\* firm.step() up to the hiring loop: production, settlement, the firing
\* decision, and the set-up of the hiring loop.
FirmProduce ==
    /\ pc = "firms"
    /\ \E produced \in ProductionOutcomes(World, cur) :
       \E d \in UnitDraws :
       \E i \in 1..Max2(1, Len(produced.F[cur].workers)) :
          LET fires == FiringApplies(produced.F[cur]) /\ d < FireProbability
              fired == IF fires THEN produced.F[cur].workers[i] ELSE 0
              world == FiringDecision(produced, cur, d, i)
              loops == /\ Len(world.F[cur].workers) < world.F[cur].max_workers
                       /\ Len(world.unemp) > 0
          IN  /\ worker_agents' = world.W
              /\ firm_agents' = world.F
              /\ employed_workers' = world.emp
              /\ unemployed_workers' = world.unemp
              /\ last' = Event("firm_produce", cur, fired,
                               IF fires THEN produced.W[fired] ELSE NoWorker)
              /\ IF loops
                 THEN /\ hire_local' = world.unemp
                      /\ hire_left' = Min2(HiresPerStep, Len(world.unemp))
                      /\ pc' = "hiring"
                      /\ cur' = cur
                 ELSE /\ hire_local' = << >>
                      /\ hire_left' = 0
                      /\ AfterFirm(cur)
    /\ UNCHANGED <<price_index, model_vars, steps>>

\* One iteration of the hiring loop; the loop ends after its last iteration
\* or at its break, and firm.step() returns.
FirmHire ==
    /\ pc = "hiring"
    /\ \E k \in 1..Len(hire_local) :
       \E d \in UnitDraws :
       \E e \in MultiplierEnds, t \in TaxEnds, s \in ShareEnds, e2 \in MultiplierEnds :
          LET id == hire_local[k]
              it == HireIteration(World, hire_local, cur, id, d, e, t, s, e2)
              world == it.world
              done == hire_left = 1
                      \/ Len(world.F[cur].workers) >= world.F[cur].max_workers
          IN  /\ worker_agents' = world.W
              /\ firm_agents' = world.F
              /\ employed_workers' = world.emp
              /\ unemployed_workers' = world.unemp
              /\ last' = IF it.result
                         THEN Event("hire", cur, id, worker_agents[id])
                         ELSE Event("no_hire", cur, 0, NoWorker)
              /\ IF done
                 THEN /\ hire_local' = << >>
                      /\ hire_left' = 0
                      /\ AfterFirm(cur)
                 ELSE /\ hire_local' = it.local
                      /\ hire_left' = hire_left - 1
                      /\ pc' = "hiring"
                      /\ cur' = cur
    /\ UNCHANGED <<price_index, model_vars, steps>>

\* A collect that replaces the latest record instead of appending one.
Collect_replaces_record ==
    /\ pc = "collect"
    /\ model_vars' = [model_vars EXCEPT ![Len(model_vars)] =
                          Collected(worker_agents, employed_workers)]
    /\ worker_agents' = AfterReporters(worker_agents)
    /\ steps' = steps + 1
    /\ pc' = "idle"
    /\ last' = Event("collect", 0, 0, NoWorker)
    /\ UNCHANGED <<firm_agents, employed_workers, unemployed_workers, price_index,
                   cur, hire_local, hire_left>>

\* datacollector.collect(self), which ends Economy.step().
Collect ==
    /\ pc = "collect"
    /\ model_vars' = Append(model_vars, Collected(worker_agents, employed_workers))
    /\ worker_agents' = AfterReporters(worker_agents)
    /\ steps' = steps + 1
    /\ pc' = "idle"
    /\ last' = Event("collect", 0, 0, NoWorker)
    /\ UNCHANGED <<firm_agents, employed_workers, unemployed_workers, price_index,
                   cur, hire_local, hire_left>>

Next == StepBegin \/ WorkerStep \/ FirmProduce \/ FirmHire \/ Collect

Spec == Init /\ [][Next]_vars

\* The economy with worker 1 marked bankrupt by its caller after
\* construction: handle_debt_mechanics itself never sets the mark (see
\* NeverBankrupt), and is_bankrupt is a plain attribute a caller can assign.
InitBankrupt ==
    /\ worker_agents = [AfterReporters(ConstructedWorkers) EXCEPT ![1].is_bankrupt = TRUE]
    /\ firm_agents = ConstructedFirms
    /\ employed_workers = << >>
    /\ unemployed_workers = IdSeq(NumWorkers)
    /\ price_index = 1000000
    /\ model_vars = <<Collected(ConstructedWorkers, << >>)>>
    /\ steps = 0
    /\ pc = "idle"
    /\ cur = 0
    /\ hire_local = << >>
    /\ hire_left = 0
    /\ last = Event("init", 0, 0, NoWorker)

SpecBankrupt == InitBankrupt /\ [][Next]_vars

\* ------------------------------------- employment decisions on their own
\* _make_employment_decisions() called again and again on a firm whose
\* fields were assigned, as Scenario D of the specification's section 8
\* does: firm 1 has ScenarioRoster workers on its roster, all employed by
\* it, the smallest max_workers the constructor draws, and a profit of -600
\* or -400 that no call changes.
ScenarioRoster == 6
SmallestMaxWorkers == 30
ScenarioProfit == {-60000, -40000}

InitDecisions ==
    /\ worker_agents =
          [w \in 1..ScenarioRoster |->
              [NewWorker(SkillOf(w), InitialWealth(w), ProductivityOf(w),
                         DebtCapacityOf(w), InterestRateOf(w), OwnsFirmOf(w))
                  EXCEPT !.is_employed = TRUE,
                         !.employer = 1,
                         !.wage = WageRatesOf(1)[SkillOf(w)]]]
    /\ \E p \in ScenarioProfit :
          firm_agents = [ConstructedFirms EXCEPT ![1].workers = IdSeq(ScenarioRoster),
                                                 ![1].max_workers = SmallestMaxWorkers,
                                                 ![1].profit = p]
    /\ employed_workers = IdSeq(ScenarioRoster)
    /\ unemployed_workers = << >>
    /\ price_index = 1000000
    /\ model_vars = << >>
    /\ steps = 0
    /\ pc = "decide"
    /\ cur = 1
    /\ hire_local = << >>
    /\ hire_left = 0
    /\ last = Event("init", 0, 0, NoWorker)

\* _make_employment_decisions() up to its hiring loop.
DecideFiring ==
    /\ pc = "decide"
    /\ steps < MaxDecisions
    /\ \E d \in UnitDraws :
       \E i \in 1..Max2(1, Len(firm_agents[cur].workers)) :
          LET fires == FiringApplies(firm_agents[cur]) /\ d < FireProbability
              fired == IF fires THEN firm_agents[cur].workers[i] ELSE 0
              world == FiringDecision(World, cur, d, i)
              loops == /\ Len(world.F[cur].workers) < world.F[cur].max_workers
                       /\ Len(world.unemp) > 0
          IN  /\ worker_agents' = world.W
              /\ firm_agents' = world.F
              /\ employed_workers' = world.emp
              /\ unemployed_workers' = world.unemp
              /\ last' = Event("fire_decision", cur, fired,
                               IF fires THEN worker_agents[fired] ELSE NoWorker)
              /\ IF loops
                 THEN /\ hire_local' = world.unemp
                      /\ hire_left' = Min2(HiresPerStep, Len(world.unemp))
                      /\ pc' = "decide_hiring"
                      /\ steps' = steps
                 ELSE /\ hire_local' = << >>
                      /\ hire_left' = 0
                      /\ pc' = "decide"
                      /\ steps' = steps + 1
    /\ UNCHANGED <<price_index, model_vars, cur>>

\* One iteration of its hiring loop.
DecideHiring ==
    /\ pc = "decide_hiring"
    /\ \E k \in 1..Len(hire_local) :
       \E d \in UnitDraws :
       \E e \in MultiplierEnds, t \in TaxEnds, s \in ShareEnds, e2 \in MultiplierEnds :
          LET id == hire_local[k]
              it == HireIteration(World, hire_local, cur, id, d, e, t, s, e2)
              world == it.world
              done == hire_left = 1
                      \/ Len(world.F[cur].workers) >= world.F[cur].max_workers
          IN  /\ worker_agents' = world.W
              /\ firm_agents' = world.F
              /\ employed_workers' = world.emp
              /\ unemployed_workers' = world.unemp
              /\ last' = IF it.result
                         THEN Event("hire", cur, id, worker_agents[id])
                         ELSE Event("no_hire", cur, 0, NoWorker)
              /\ IF done
                 THEN /\ hire_local' = << >>
                      /\ hire_left' = 0
                      /\ pc' = "decide"
                      /\ steps' = steps + 1
                 ELSE /\ hire_local' = it.local
                      /\ hire_left' = hire_left - 1
                      /\ pc' = "decide_hiring"
                      /\ steps' = steps
    /\ UNCHANGED <<price_index, model_vars, cur>>

NextDecisions == DecideFiring \/ DecideHiring

SpecDecisions == InitDecisions /\ [][NextDecisions]_vars

\* -------------------------------------------------- construction
\* SimpleCapitalistModel(num_workers, num_firms) for arguments of any sign.
\* range(n) is empty for n <= 0.  The constructor tests neither argument;
\* its last statement logs firm_owners/num_workers*100, a division that
\* raises ZeroDivisionError when num_workers is 0.
ConstructedWorkersOf(num_workers) ==
    [w \in 1..num_workers |-> NewWorker(SkillOf(w), InitialWealth(w), ProductivityOf(w),
                                        DebtCapacityOf(w), InterestRateOf(w), OwnsFirmOf(w))]
ConstructedFirmsOf(num_firms) ==
    [f \in 1..num_firms |-> NewFirm(FirmCapitalOf(f), MaxWorkersModel, WageRatesOf(f),
                                    PreferredMixOf(f), FirmTaxRateOf(f))]
ConstructorRaises(num_workers, num_firms) == num_workers = 0

\* A call of the constructor is pending; last holds its arguments.
InitConstruct ==
    /\ \E a \in (-MaxArgument)..MaxArgument, b \in (-MaxArgument)..MaxArgument :
          last = [op |-> "call", num_workers |-> a, num_firms |-> b]
    /\ worker_agents = << >>
    /\ firm_agents = << >>
    /\ employed_workers = << >>
    /\ unemployed_workers = << >>
    /\ price_index = 1000000
    /\ model_vars = << >>
    /\ steps = 0
    /\ pc = "new"
    /\ cur = 0
    /\ hire_local = << >>
    /\ hire_left = 0

\* SimpleCapitalistModel.__init__: an Economy at its first step boundary, or
\* an exception and no Economy.
Construct ==
    /\ pc = "new"
    /\ IF ConstructorRaises(last.num_workers, last.num_firms)
       THEN /\ pc' = "raised"
            /\ last' = [last EXCEPT !.op = "ZeroDivisionError"]
            /\ UNCHANGED <<worker_agents, firm_agents, unemployed_workers, model_vars>>
       ELSE /\ pc' = "idle"
            /\ last' = [last EXCEPT !.op = "constructed"]
            /\ worker_agents' = AfterReporters(ConstructedWorkersOf(last.num_workers))
            /\ firm_agents' = ConstructedFirmsOf(last.num_firms)
            /\ unemployed_workers' = IdSeq(Max2(0, last.num_workers))
            /\ model_vars' = <<Collected(ConstructedWorkersOf(last.num_workers), << >>)>>
    /\ UNCHANGED <<employed_workers, price_index, steps, cur, hire_local, hire_left>>

NextConstruct == Construct

SpecConstruct == InitConstruct /\ [][NextConstruct]_vars

\* ------------------------------------------------ floating point
\* A float is m * 2^e with m = 0, or 2^(MantissaBits-1) <= |m| < 2^MantissaBits.
\* Every operation returns the float nearest to the exact result.  Exponents
\* are unbounded: no value of a run comes near the overflow or underflow of
\* the program's floats.
RECURSIVE Pow2(_)
Pow2(k) == IF k = 0 THEN 1 ELSE 2 * Pow2(k - 1)

FloatZero == [m |-> 0, e |-> 0]

\* a/d > 0 brought to q * 2^e with 2^(MantissaBits-1) <= q < 2^MantissaBits,
\* q = a/d of the result.
RECURSIVE Normalize(_, _, _)
Normalize(a, d, e) ==
    IF a % 2 = 0 /\ d % 2 = 0 THEN Normalize(a \div 2, d \div 2, e)
    ELSE IF a >= d * Pow2(MantissaBits) THEN Normalize(a, d * 2, e + 1)
    ELSE IF a < d * Pow2(MantissaBits - 1) THEN Normalize(a * 2, d, e - 1)
    ELSE [a |-> a, d |-> d, e |-> e]

\* The float nearest to n/d (d > 0), ties to the even significand.
RoundRat(n, d) ==
    IF n = 0 THEN FloatZero
    ELSE LET nz == Normalize(IF n < 0 THEN -n ELSE n, d, 0)
             q == nz.a \div nz.d
             r == nz.a % nz.d
             up == 2 * r > nz.d \/ (2 * r = nz.d /\ q % 2 = 1)
             m1 == IF up THEN q + 1 ELSE q
             carry == m1 = Pow2(MantissaBits)
             m == IF carry THEN Pow2(MantissaBits - 1) ELSE m1
         IN  [m |-> IF n < 0 THEN -m ELSE m, e |-> IF carry THEN nz.e + 1 ELSE nz.e]

\* A float as the fraction NumOf/DenOf.
NumOf(x) == IF x.e >= 0 THEN x.m * Pow2(x.e) ELSE x.m
DenOf(x) == IF x.e >= 0 THEN 1 ELSE Pow2(-x.e)

float_of_int(k) == RoundRat(k, 1)
float_add(x, y) == RoundRat(NumOf(x) * DenOf(y) + NumOf(y) * DenOf(x), DenOf(x) * DenOf(y))
float_sub(x, y) == RoundRat(NumOf(x) * DenOf(y) - NumOf(y) * DenOf(x), DenOf(x) * DenOf(y))
float_mul(x, y) == RoundRat(NumOf(x) * NumOf(y), DenOf(x) * DenOf(y))
\* x / y for y # 0
float_div(x, y) ==
    IF NumOf(y) > 0 THEN RoundRat(NumOf(x) * DenOf(y), DenOf(x) * NumOf(y))
    ELSE RoundRat(-(NumOf(x) * DenOf(y)), DenOf(x) * (-NumOf(y)))
float_less(x, y) == NumOf(x) * DenOf(y) < NumOf(y) * DenOf(x)

\* sorted(): insertion of each element into the sorted rest.
RECURSIVE InsertSorted(_, _)
InsertSorted(s, x) ==
    IF s = << >> THEN <<x>>
    ELSE IF float_less(x, Head(s)) THEN <<x>> \o s
    ELSE <<Head(s)>> \o InsertSorted(Tail(s), x)
RECURSIVE sorted(_)
sorted(s) == IF s = << >> THEN << >> ELSE InsertSorted(sorted(Tail(s)), Head(s))

\* sum(x): the additions from left to right.
RECURSIVE float_sum(_, _)
float_sum(s, acc) == IF s = << >> THEN acc ELSE float_sum(Tail(s), float_add(acc, Head(s)))

\* ---------------------------------------------------- compute_gini
\* sum(xi * (n - i) for i, xi in enumerate(x)), from position i (0-based) on.
RECURSIVE WeightedSum(_, _, _)
WeightedSum(x, i, acc) ==
    IF i >= Len(x) THEN acc
    ELSE WeightedSum(x, i + 1,
             float_add(acc, float_mul(x[i + 1], float_of_int(Len(x) - i))))

\* compute_gini on the wealth values in population order.  A division by
\* zero raises ZeroDivisionError: raised is TRUE and there is no value.
GiniOfWealths(workers_wealth) ==
    LET x == sorted(workers_wealth)
        n == Len(x)
        denominator == float_mul(float_of_int(n), float_sum(x, FloatZero))
        B == float_div(WeightedSum(x, 0, FloatZero), denominator)
    IN  IF n = 0 \/ denominator = FloatZero
        THEN [raised |-> TRUE, value |-> FloatZero]
        ELSE [raised |-> FALSE,
              value |-> float_sub(float_add(float_of_int(1),
                                            float_div(float_of_int(1), float_of_int(n))),
                                  float_mul(float_of_int(2), B))]

\* [worker.wealth for worker in self.worker_agents]
WealthsOf(W) == [i \in 1..Cardinality(DOMAIN W) |-> float_of_int(W[i].wealth)]
compute_gini(W) == GiniOfWealths(WealthsOf(W))

\* ------------------------------------------- compute_gini on its own
\* An Economy of 1..MaxPopulation workers whose wealth was assigned, in
\* whole dollars, as Scenario A of the specification's section 8 does; then
\* compute_gini() is called, and the collector collects it.
GiniWealth == {0, 173, 510, 511, 1000}

InitGini ==
    /\ \E n \in 1..MaxPopulation : \E wealth \in [1..n -> GiniWealth] :
          worker_agents = [i \in 1..n |->
              [NewWorker("low", wealth[i], 100, 500000, 100, FALSE) EXCEPT !.wealth = wealth[i]]]
    /\ firm_agents = ConstructedFirms
    /\ employed_workers = << >>
    /\ unemployed_workers = << >>
    /\ price_index = 1000000
    /\ model_vars = << >>
    /\ steps = 0
    /\ pc = "gini"
    /\ cur = 0
    /\ hire_local = << >>
    /\ hire_left = 0
    /\ last = Event("init", 0, 0, NoWorker)

\* A direct call model.compute_gini(): what it returns or raises reaches the
\* caller only, and is kept in last.
GiniCall ==
    /\ pc = "gini"
    /\ last' = [op |-> "compute_gini", result |-> compute_gini(worker_agents)]
    /\ pc' = "called"
    /\ UNCHANGED <<worker_agents, firm_agents, employed_workers, unemployed_workers,
                   price_index, model_vars, steps, cur, hire_local, hire_left>>

\* DataCollector.collect() that lets the exception of a reporter reach its
\* caller: no record is appended.
GiniReporter_propagates ==
    /\ pc = "called"
    /\ LET r == compute_gini(worker_agents)
           c == Collected(worker_agents, employed_workers)
       IN  IF r.raised
           THEN model_vars' = model_vars /\ pc' = "aborted"
           ELSE /\ model_vars' = Append(model_vars,
                                    [gini |-> r.value,
                                     employed |-> c.employed, in_debt |-> c.in_debt])
                /\ pc' = "collected"
    /\ UNCHANGED <<worker_agents, firm_agents, employed_workers, unemployed_workers,
                   price_index, steps, cur, hire_local, hire_left, last>>

\* DataCollector.collect() with the reporter "Gini Coefficient" among the
\* reporters: a reporter that raises is recorded as 0, the others are
\* recorded as they are, and the record is appended.
GiniReporter ==
    /\ pc = "called"
    /\ LET r == compute_gini(worker_agents)
           c == Collected(worker_agents, employed_workers)
       IN  model_vars' = Append(model_vars,
                             [gini |-> IF r.raised THEN FloatZero ELSE r.value,
                              employed |-> c.employed, in_debt |-> c.in_debt])
    /\ pc' = "collected"
    /\ UNCHANGED <<worker_agents, firm_agents, employed_workers, unemployed_workers,
                   price_index, steps, cur, hire_local, hire_left, last>>

NextGini == GiniCall \/ GiniReporter

SpecGini == InitGini /\ [][NextGini]_vars

\* ------------------------------------------- a worker on its own
\* WorkerAgent.step() called on a worker whose fields were assigned
\* directly, as the scenarios of the specification's section 8 do: worker 1
\* of a constructed Economy takes its fields from the sets below.  The
\* debt capacity 120000 is Scenario C's; the constructor draws 500000 and
\* more.
FixtureWealth == {0, 1000, 50000, 100000, 1200000}
FixtureDebt == {0, 1500, 100000, 600000}
FixtureCapacity == {120000, 500000}
FixtureRate == {100, 260}
FixtureWeeks == {0, 4, 20}

FixtureWorker(skill, employed, wealth, debt, capacity, rate, weeks) ==
    [NewWorker(skill, wealth, 100, capacity, rate, FALSE) EXCEPT
        !.debt = debt,
        !.is_employed = employed,
        !.employer = IF employed THEN 1 ELSE NoFirm,
        !.wage = IF employed THEN BaseReservation(skill) * WorkHours ELSE 0,
        !.weeks_unemployed = weeks]

InitWorker ==
    /\ \E skill \in Skills, employed \in BOOLEAN, wealth \in FixtureWealth,
          debt \in FixtureDebt, capacity \in FixtureCapacity, rate \in FixtureRate,
          weeks \in FixtureWeeks :
          worker_agents = [ConstructedWorkers EXCEPT ![1] =
              FixtureWorker(skill, employed, wealth, debt, capacity, rate, weeks)]
    /\ firm_agents = ConstructedFirms
    /\ employed_workers = << >>
    /\ unemployed_workers = IdSeq(NumWorkers)
    /\ price_index = 1000000
    /\ model_vars = << >>
    /\ steps = 0
    /\ pc = "fixture"
    /\ cur = 1
    /\ hire_local = << >>
    /\ hire_left = 0
    /\ last = Event("init", 0, 0, NoWorker)

\* worker.step() on the worker.
FixtureWorkerStep ==
    /\ pc = "fixture"
    /\ steps < MaxFixtureSteps
    /\ \E g \in GrowthDraws :
          worker_agents' = [worker_agents EXCEPT ![cur] = worker_step(worker_agents[cur], g)]
    /\ last' = Event("worker_step", cur, cur, worker_agents[cur])
    /\ steps' = steps + 1
    /\ UNCHANGED <<firm_agents, employed_workers, unemployed_workers, price_index,
                   model_vars, pc, cur, hire_local, hire_left>>

NextWorker == FixtureWorkerStep

SpecWorker == InitWorker /\ [][NextWorker]_vars

\* A worker stepped week after week by a caller that goes on calling step()
\* as long as it may: the fixture above with the unemployment weeks at 0 and
\* the interest rate at 0.26, wealth 0 or 500.
InitDebtor ==
    /\ \E skill \in Skills, employed \in BOOLEAN, wealth \in {0, 50000},
          debt \in FixtureDebt, capacity \in FixtureCapacity :
          worker_agents = [ConstructedWorkers EXCEPT ![1] =
              FixtureWorker(skill, employed, wealth, debt, capacity, 260, 0)]
    /\ firm_agents = ConstructedFirms
    /\ employed_workers = << >>
    /\ unemployed_workers = IdSeq(NumWorkers)
    /\ price_index = 1000000
    /\ model_vars = << >>
    /\ steps = 0
    /\ pc = "fixture"
    /\ cur = 1
    /\ hire_local = << >>
    /\ hire_left = 0
    /\ last = Event("init", 0, 0, NoWorker)

SpecDebtor == InitDebtor /\ [][NextWorker]_vars /\ WF_vars(FixtureWorkerStep)

\* ------------------------------------------------------------ claims
\* A step boundary: no Economy.step() is under way.
StepBoundary == pc = "idle"
Roster(f) == firm_agents[f].workers

\* C1: in every state, at construction, inside and after every
\* Economy.step(), employed_workers and unemployed_workers hold workers
\* only, and every worker occurs exactly once in the two lists together.
C1_Partition ==
    /\ \A i \in 1..Len(employed_workers) : employed_workers[i] \in Workers
    /\ \A i \in 1..Len(unemployed_workers) : unemployed_workers[i] \in Workers
    /\ \A w \in Workers : CountIn(employed_workers, w) + CountIn(unemployed_workers, w) = 1

\* A firing has just moved a worker back while other workers stay employed.
C1_Witness ==
    /\ last.op = "firm_produce"
    /\ last.who # 0
    /\ InSeq(unemployed_workers, last.who)
    /\ Len(employed_workers) > 0

\* C2: at every step boundary a worker's is_employed flag agrees with the
\* list the Economy holds it in.
C2_FlagAgreesWithPartition ==
    StepBoundary =>
        \A w \in Workers :
            /\ worker_agents[w].is_employed <=> InSeq(employed_workers, w)
            /\ ~worker_agents[w].is_employed <=> InSeq(unemployed_workers, w)

\* C3: at every step boundary no roster has more than max_workers entries.
C3_RosterBound ==
    StepBoundary => \A f \in Firms : Len(Roster(f)) <= firm_agents[f].max_workers

\* C4: at every step boundary every worker on a firm's roster has that firm
\* as employer and is employed.
C4_RosterMembersEmployedHere ==
    StepBoundary =>
        \A f \in Firms : \A i \in 1..Len(Roster(f)) :
            /\ worker_agents[Roster(f)[i]].employer = f
            /\ worker_agents[Roster(f)[i]].is_employed

\* C5: at every step boundary a worker is on the roster of at most one firm.
C5_OneRosterPerWorker ==
    StepBoundary =>
        \A w \in Workers : \A f \in Firms : \A g \in Firms :
            InSeq(Roster(f), w) /\ InSeq(Roster(g), w) => f = g

\* C6: in every state no worker occurs more than once in a firm's roster.
C6_RosterIsSet ==
    \A f \in Firms : \A w \in Workers : CountIn(Roster(f), w) <= 1

\* C7: at every step boundary an employed worker has an employer, and a
\* worker that has an employer is on that employer's roster.
C7_EmployerBackReference ==
    StepBoundary =>
        \A w \in Workers :
            /\ worker_agents[w].is_employed => worker_agents[w].employer # NoFirm
            /\ worker_agents[w].employer # NoFirm =>
                   InSeq(Roster(worker_agents[w].employer), w)

\* A step boundary with a worker employed by a firm after that firm has
\* fired another worker.
C7_Witness ==
    /\ StepBoundary
    /\ \E f \in Firms : \E w \in Workers : \E v \in Workers :
          /\ worker_agents[w].is_employed /\ worker_agents[w].employer = f
          /\ ~worker_agents[v].is_employed /\ worker_agents[v].total_wages_earned > 0

\* C8: in every state every worker's wealth and debt are at least 0.
C8_NonNegative ==
    \A w \in Workers : worker_agents[w].wealth >= 0 /\ worker_agents[w].debt >= 0

\* A step boundary after wage credit, needs payment and debt service: one
\* worker has been paid and still carries debt it has paid into, another is
\* unemployed with no wealth left and debt.
C8_Witness ==
    /\ StepBoundary
    /\ \E w \in Workers :
          /\ worker_agents[w].total_wages_earned > 0
          /\ worker_agents[w].debt > 0
          /\ worker_agents[w].wealth > 0
    /\ \E v \in Workers :
          /\ ~worker_agents[v].is_employed
          /\ worker_agents[v].wealth = 0
          /\ worker_agents[v].debt > 0

\* The worker whose step() led to this state, before and after it.
Stepped == last.op = "worker_step"
Before == last.pre
After == worker_agents[last.id]

\* Scenario B: unemployed, wealth 0, debt 0, basic_needs 500.
ScenarioB ==
    /\ Stepped
    /\ ~Before.is_employed
    /\ Before.wealth = 0
    /\ Before.debt = 0
    /\ Before.basic_needs = 50000

\* C9 as stated: after one step() of a Scenario B worker, debt is exactly
\* 500 and wealth is 0, whatever the interest rate.
C9_DebtIsNeeds == ScenarioB => After.debt = 50000 /\ After.wealth = 0

\* C9 amended: after one step() of a Scenario B worker, debt is 500 plus one
\* week's interest on 500, and wealth is 0.
C9_DebtIsNeedsWithInterest ==
    ScenarioB =>
        /\ After.debt = 50000 + (50000 * Before.interest_rate) \div 52000
        /\ After.debt > 50000
        /\ After.wealth = 0

C9_Witness == ScenarioB /\ Before.interest_rate = 100

\* Scenario C: debt 1000, debt_capacity 1200, interest_rate 0.26, wealth 0.
ScenarioC ==
    /\ Stepped
    /\ Before.debt = 100000
    /\ Before.debt_capacity = 120000
    /\ Before.interest_rate = 260
    /\ Before.wealth = 0

\* C10 as stated: after one step() of a Scenario C worker, employed or not,
\* debt is 1000 * (1 + 0.26/52) = 1005, is_bankrupt is false and wealth is 0.
C10_InterestOnly ==
    ScenarioC => After.debt = 100500 /\ ~After.is_bankrupt /\ After.wealth = 0

\* C10 amended: after one step() of a Scenario C worker, is_bankrupt is
\* false and wealth is 0; debt is 1005 when the worker is employed, and
\* (1000 + basic_needs) * (1 + 0.26/52) when it is unemployed.
C10_InterestOnDebtAndShortfall ==
    ScenarioC =>
        /\ ~After.is_bankrupt
        /\ After.wealth = 0
        /\ Before.is_employed => After.debt = 100500
        /\ ~Before.is_employed =>
               After.debt = (100000 + Before.basic_needs)
                            + ((100000 + Before.basic_needs) * 260) \div 52000

\* An unemployed Scenario C worker has stepped and its debt is now above
\* its debt capacity.
C10_Witness == ScenarioC /\ ~Before.is_employed /\ After.debt > After.debt_capacity

\* The worker stepped on its own is unemployed with no wealth, so that its
\* basic needs stay unmet, and its debt is above its debt capacity.
OverCapacityUnmet ==
    /\ pc = "fixture"
    /\ ~worker_agents[1].is_employed
    /\ worker_agents[1].wealth = 0
    /\ worker_agents[1].debt > worker_agents[1].debt_capacity

\* The bankruptcy test of handle_debt_mechanics never passes: no worker is
\* bankrupt in any state, however many steps have run.
NeverBankrupt == \A w \in DOMAIN worker_agents : ~worker_agents[w].is_bankrupt

C12_ReservationFloor ==
    \A w \in Workers :
        /\ get_reservation_wage(worker_agents[w]) * 10000
               >= 70 * 60 * BaseReservation(worker_agents[w].skill_level) * WorkHours
        /\ get_reservation_wage(worker_agents[w]) > 0

\* C13: in every state in which total output (total wages plus total
\* surplus value) is above 0, get_wage_share() is in [0, 1]: total wages are
\* at least 0 and at most total output.
C13_WageShareBound ==
    TotalWages(worker_agents) + TotalSurplus(firm_agents) > 0 =>
        /\ 0 <= TotalWages(worker_agents)
        /\ TotalWages(worker_agents) <= TotalWages(worker_agents) + TotalSurplus(firm_agents)
        /\ get_wage_share(worker_agents, firm_agents) \in 0..1000

\* compute_gini() has been called on the population, and what it gave.
GiniRan == last.op = "compute_gini"
GiniResult == last.result
Population == DOMAIN worker_agents
TotalWealth == Sum([w \in Population |-> worker_agents[w].wealth], Population)
AllEqualWealth == \A v \in Population : \A w \in Population :
                      worker_agents[v].wealth = worker_agents[w].wealth

\* C14: when the total wealth of all workers is zero, compute_gini() gives a
\* value and does not raise.
C14_GiniDefinedAtZeroWealth ==
    GiniRan /\ TotalWealth = 0 => ~GiniResult.raised

\* C15: a construction with num_workers <= 0 or num_firms <= 0 is rejected:
\* the constructor fails and no Economy is produced.
C15_InvalidSizesRejected ==
    pc \in {"idle", "raised"} /\ (last.num_workers <= 0 \/ last.num_firms <= 0)
        => pc = "raised"

\* The wealth values in another order of the workers.
Reordered(p) == [i \in 1..Cardinality(Population) |-> float_of_int(worker_agents[p[i]].wealth)]

\* C16: for non-negative wealth values that are not all equal and have a
\* positive sum, compute_gini() returns g with 0 <= g < 1, and returns the
\* same g for every order of the workers.
C16_GiniBounds ==
    GiniRan /\ ~AllEqualWealth /\ TotalWealth > 0 =>
        /\ ~GiniResult.raised
        /\ GiniResult.value.m >= 0
        /\ float_less(GiniResult.value, float_of_int(1))
        /\ \A p \in Permutations(Population) : GiniOfWealths(Reordered(p)) = GiniResult

\* C17: for every population whose workers all hold the same wealth above
\* 0, compute_gini() returns exactly 0.
C17_EqualWealthGiniZero ==
    GiniRan /\ AllEqualWealth /\ TotalWealth > 0 =>
        ~GiniResult.raised /\ GiniResult.value = FloatZero

\* The value the workers on firm f's roster produce in one pass of the
\* production loop, a worker once for each of its roster entries.
GrossOutput(f) ==
    Sum([i \in 1..Len(Roster(f)) |-> get_productive_value(worker_agents[Roster(f)[i]])],
        1..Len(Roster(f)))

\* C18 as stated: every FirmAgent.step() leaves surplus value = gross output
\* - wages paid, profit = surplus value * (1 - tax_rate) whatever the sign
\* of the surplus value, and capital increased by that profit.
C18_ProfitIsTaxedSurplus ==
    [][pc = "firms" =>
        LET before == firm_agents[cur]
            after == firm_agents'[cur]
        IN  /\ after.total_surplus_value = GrossOutput(cur) - after.wages_paid
            /\ after.profit = after.total_surplus_value
                                - (after.total_surplus_value * after.tax_rate) \div 100
            /\ after.capital = before.capital + after.profit]_vars

\* C18 amended: every FirmAgent.step() leaves surplus value = gross output -
\* wages paid, taxes_paid = max(0, surplus value * tax_rate), profit =
\* surplus value - taxes_paid (the whole surplus value when it is negative),
\* and capital increased by that profit.
C18_ProfitIsSurplusLessTax ==
    [][pc = "firms" =>
        LET before == firm_agents[cur]
            after == firm_agents'[cur]
            surplus == after.total_surplus_value
        IN  /\ surplus = GrossOutput(cur) - after.wages_paid
            /\ after.taxes_paid = Max2(0, (surplus * after.tax_rate) \div 100)
            /\ after.profit = surplus - after.taxes_paid
            /\ surplus < 0 => after.profit = surplus /\ after.taxes_paid = 0
            /\ after.capital = before.capital + after.profit]_vars

\* One firm has stepped with a negative surplus value and another with a
\* positive one, on which it paid tax.
C18_Witness ==
    /\ \E f \in Firms : /\ firm_agents[f].total_surplus_value < 0
                        /\ firm_agents[f].profit = firm_agents[f].total_surplus_value
                        /\ firm_agents[f].capital < FirmCapitalOf(f)
    /\ \E g \in Firms : /\ firm_agents[g].total_surplus_value > 0
                        /\ firm_agents[g].taxes_paid > 0

\* C19 as stated: after k >= 1 calls of Economy.step() on a freshly
\* constructed Economy the collector holds exactly k records.
C19_OneRowPerStep ==
    StepBoundary /\ steps >= 1 => Len(model_vars) = steps

\* C19 amended: the collector holds one record from the construction and
\* one more for every completed step, k + 1 after k steps; a record is only
\* ever appended, by the collect that ends a step, from the state at that
\* point.
C19_OneRowPerStepAndOneAtConstruction ==
    /\ [](Len(model_vars) = steps + 1)
    /\ [][model_vars' # model_vars =>
            /\ pc = "collect"
            /\ pc' = "idle"
            /\ model_vars' = Append(model_vars, Collected(worker_agents, employed_workers))]_vars

\* Two steps have completed and a worker was employed when the second
\* record after the construction's was collected.
C19_Witness ==
    /\ StepBoundary
    /\ steps >= 2
    /\ Len(model_vars) = steps + 1
    /\ model_vars[1].employed = 0
    /\ model_vars[3].employed > 0

\* The operations of a firm's step().
FirmOps == {"firm_produce", "hire", "no_hire"}

\* C20: within one Economy.step() the price index is advanced first, then
\* every worker's step() runs once in population order, then every firm's
\* step() runs once in population order, then the metrics are collected; a
\* step begins only after the construction or the previous step's collect.
\* Rosters and employment lists change in a firm's step() only, the price
\* index at the start of a step only.
C20_StepOrder ==
    /\ [][CASE last'.op = "price" -> last.op \in {"init", "collect"}
            [] last'.op = "worker_step" ->
                  IF last'.id = 1 THEN last.op = "price"
                  ELSE last.op = "worker_step" /\ last.id = last'.id - 1
            [] last'.op = "firm_produce" ->
                  IF last'.id = 1 THEN last.op = "worker_step" /\ last.id = NumWorkers
                  ELSE last.op \in FirmOps /\ last.id = last'.id - 1
            [] last'.op \in {"hire", "no_hire"} ->
                  last.op \in FirmOps /\ last.id = last'.id
            [] last'.op = "collect" -> last.op \in FirmOps /\ last.id = NumFirms
            [] OTHER -> FALSE]_vars
    /\ [][/\ price_index' # price_index => last'.op = "price"
          /\ (\/ employed_workers' # employed_workers
              \/ unemployed_workers' # unemployed_workers
              \/ \E f \in Firms : firm_agents'[f] # firm_agents[f]) => last'.op \in FirmOps
          /\ last'.op = "worker_step" =>
                 \A w \in Workers \ {last'.id} : worker_agents'[w] = worker_agents[w]
          /\ model_vars' # model_vars => last'.op = "collect"]_vars

\* A second step has been collected after a step in which a firm fired a
\* worker and hired.
C20_Witness ==
    /\ last.op = "collect"
    /\ steps >= 2
    /\ \E w \in Workers : /\ ~InSeq(employed_workers, w)
                          /\ worker_agents[w].total_wages_earned > 0
    /\ Len(employed_workers) > 0

\* Scenario D: the firm's profit is below -500 (its roster started at 6).
ScenarioD == firm_agents[1].profit < FireProfitThreshold

\* C21 as stated: in Scenario D, over repeated employment decisions, the
\* roster size never increases through a firing and never falls to 5 or
\* below.
C21_RosterStaysAboveFive ==
    /\ [](ScenarioD => Len(Roster(1)) > FireRosterThreshold)
    /\ [][ScenarioD /\ last'.op = "fire_decision"
            => Len(firm_agents'[1].workers) <= Len(Roster(1))]_vars

\* C21 amended: in Scenario D the roster size never increases through a
\* firing and never falls below 5: a firing takes one entry off a roster
\* of more than 5, so that 5 is reached and is the least.
C21_RosterStaysAtLeastFive ==
    /\ [](ScenarioD => Len(Roster(1)) >= FireRosterThreshold)
    /\ [][ScenarioD /\ last'.op = "fire_decision"
            => /\ Len(firm_agents'[1].workers) \in {Len(Roster(1)), Len(Roster(1)) - 1}
               /\ Len(firm_agents'[1].workers) < Len(Roster(1))
                      => Len(Roster(1)) > FireRosterThreshold]_vars

\* The firm of Scenario D has just fired a worker and has 5 left.
C21_Witness ==
    /\ ScenarioD
    /\ pc \in {"decide", "decide_hiring"}
    /\ last.op = "fire_decision"
    /\ last.who # 0
    /\ Len(Roster(1)) = FireRosterThreshold

\* C22: no hire is finalized below the candidate's reservation wage.  Every
\* wage offer a firm computes for a worker is at least that worker's
\* reservation wage, so that no hire attempt carries an offer below it; and
\* whenever a worker goes from unemployed to employed, the weekly wage at
\* the hourly rate recorded for it, which is the gross pay credited to it,
\* is at least the reservation wage it had before, and the worker is on
\* its employer's roster.
C22_NoHireBelowReservation ==
    /\ [](\A f \in Firms : \A w \in Workers : \A e \in MultiplierEnds :
             calculate_worker_wage_offer(firm_agents[f], worker_agents, worker_agents[w], e)
                >= get_reservation_wage(worker_agents[w]))
    /\ [][\A w \in Workers :
            ~worker_agents[w].is_employed /\ worker_agents'[w].is_employed =>
                /\ worker_agents'[w].wage * WorkHours >= get_reservation_wage(worker_agents[w])
                /\ worker_agents'[w].total_wages_earned - worker_agents[w].total_wages_earned
                       = worker_agents'[w].wage * WorkHours
                /\ InSeq(firm_agents'[worker_agents'[w].employer].workers, w)]_vars

\* A firm has hired an indebted worker that was unemployed: the worker is
\* now employed by that firm, on its roster, at a wage that is at least the
\* reservation wage it had.
C22_Witness ==
    /\ last.op = "hire"
    /\ ~last.pre.is_employed
    /\ last.pre.debt > 0
    /\ worker_agents[last.who].is_employed
    /\ worker_agents[last.who].employer = last.id
    /\ InSeq(firm_agents[last.id].workers, last.who)
    /\ worker_agents[last.who].wage >= get_reservation_wage(last.pre)

\* C23: aggregate queries are pure reads.  The collector's reporters leave
\* every worker field, every firm field and both partition lists as they
\* were.
C23_ReportersArePureReads ==
    [][pc = "collect" =>
          UNCHANGED <<worker_agents, firm_agents, employed_workers, unemployed_workers>>]_vars

\* C24: work_for_firm on a worker that is already employed is a no-op.  For
\* every employed worker, every firm and every wage that firm has for it,
\* work_for_firm returns the worker as it is; and the production loop of a
\* firm, which calls work_for_firm on every entry of its roster, leaves the
\* wealth, weeks_unemployed, total_wages_earned and total_taxes_paid of
\* every worker that was employed as they were, and its wage and employer
\* too unless the firm then fires it.
C24_WorkForFirmNoOpWhenEmployed ==
    /\ [](\A w \in Workers : worker_agents[w].is_employed =>
            \A f \in Firms : \A e \in MultiplierEnds, t \in TaxEnds, s \in ShareEnds :
               work_for_firm(worker_agents[w], f, firm_agents[f].profit,
                             calculate_worker_wage_offer(firm_agents[f], worker_agents,
                                                         worker_agents[w], e) \div WorkHours,
                             t, s) = worker_agents[w])
    /\ [][last'.op = "firm_produce" =>
            \A w \in Workers : worker_agents[w].is_employed =>
               /\ worker_agents'[w].wealth = worker_agents[w].wealth
               /\ worker_agents'[w].weeks_unemployed = worker_agents[w].weeks_unemployed
               /\ worker_agents'[w].total_wages_earned = worker_agents[w].total_wages_earned
               /\ worker_agents'[w].total_taxes_paid = worker_agents[w].total_taxes_paid
               /\ last'.who # w =>
                     /\ worker_agents'[w].wage = worker_agents[w].wage
                     /\ worker_agents'[w].employer = worker_agents[w].employer]_vars

\* A firm has run its production loop over a roster that holds a worker
\* employed by the other firm: the worker is still employed there.
C24_Witness ==
    /\ last.op = "firm_produce"
    /\ \E w \in Workers :
          /\ InSeq(firm_agents[last.id].workers, w)
          /\ worker_agents[w].is_employed
          /\ worker_agents[w].employer # last.id
          /\ worker_agents[w].total_wages_earned > 0

\* C25: a worker's step never changes employment.  Across the step of a
\* worker, that worker's is_employed, employer and wage, every firm's
\* roster and both partition lists are as before; no other worker
\* changes at all.
C25_WorkerStepKeepsEmployment ==
    [][last'.op = "worker_step" =>
          /\ worker_agents'[last'.id].is_employed = worker_agents[last'.id].is_employed
          /\ worker_agents'[last'.id].employer = worker_agents[last'.id].employer
          /\ worker_agents'[last'.id].wage = worker_agents[last'.id].wage
          /\ \A w \in Workers \ {last'.id} : worker_agents'[w] = worker_agents[w]
          /\ \A f \in Firms : firm_agents'[f].workers = firm_agents[f].workers
          /\ UNCHANGED <<employed_workers, unemployed_workers>>]_vars

\* An employed worker on its employer's roster has stepped, its wealth
\* changed by the step, and it is still employed there at the same wage.
C25_Witness ==
    /\ last.op = "worker_step"
    /\ last.pre.is_employed
    /\ last.pre.wealth # worker_agents[last.id].wealth
    /\ worker_agents[last.id].is_employed
    /\ worker_agents[last.id].employer = last.pre.employer
    /\ worker_agents[last.id].wage = last.pre.wage
    /\ InSeq(firm_agents[last.pre.employer].workers, last.id)

\* The worker as its step() has it after the needs phase.
AfterNeeds == PayNeeds(calculate_financial_stress(Before))

\* An employed worker short of its basic needs, before its step().
EmployedShort == Stepped /\ Before.is_employed /\ Before.wealth < Before.basic_needs

\* C26: an employed worker whose wealth is below basic_needs pays nothing
\* for needs and borrows nothing.  Its wealth and debt are unchanged by the
\* needs phase, so that the step leaves it with the wealth and debt that
\* the debt mechanics alone make of the old ones (an unchanged wealth and
\* debt when it had no debt).  An unemployed worker short of its needs has
\* the shortfall added to its debt and its wealth set to 0; a worker that
\* can pay has no debt added.
C26_EmployedShortfallNotBorrowed ==
    Stepped =>
        /\ EmployedShort =>
              /\ AfterNeeds.wealth = Before.wealth
              /\ AfterNeeds.debt = Before.debt
              /\ After.wealth = handle_debt_mechanics(Before).wealth
              /\ After.debt = handle_debt_mechanics(Before).debt
              /\ Before.debt = 0 => After.debt = 0 /\ After.wealth = Before.wealth
        /\ ~Before.is_employed /\ Before.wealth < Before.basic_needs =>
              /\ AfterNeeds.wealth = 0
              /\ AfterNeeds.debt = Before.debt + (Before.basic_needs - Before.wealth)
              /\ After.wealth = 0
              /\ After.debt >= AfterNeeds.debt
        /\ Before.wealth >= Before.basic_needs =>
              /\ AfterNeeds.debt = Before.debt
              /\ AfterNeeds.wealth = Before.wealth - Before.basic_needs

\* An employed worker with wealth 10, less than its needs, and no debt has
\* stepped: it still has its 10 and no debt.
C26_Witness ==
    /\ EmployedShort
    /\ Before.wealth = 1000
    /\ Before.debt = 0
    /\ After.wealth = 1000
    /\ After.debt = 0

\* C27: weeks_unemployed is never negative; a worker's step adds exactly 1
\* to it when the worker is unemployed and leaves it alone when the worker
\* is employed; it is 0 on every worker that has just become employed, also
\* on one that a firm's production loop employs and the same firm step then
\* fires; and nothing else changes it.
C27_WeeksUnemployed ==
    /\ [](\A w \in Workers : worker_agents[w].weeks_unemployed >= 0)
    /\ [][\A w \in Workers :
            LET old == worker_agents[w]
                new == worker_agents'[w]
            IN  /\ last'.op = "worker_step" /\ last'.id = w /\ ~old.is_employed =>
                      new.weeks_unemployed = old.weeks_unemployed + 1
                /\ last'.op = "worker_step" /\ last'.id = w /\ old.is_employed =>
                      new.weeks_unemployed = old.weeks_unemployed
                /\ ~old.is_employed /\ new.is_employed => new.weeks_unemployed = 0
                /\ ~(last'.op = "worker_step" /\ last'.id = w)
                   /\ ~(~old.is_employed /\ new.is_employed) =>
                      \/ new.weeks_unemployed = old.weeks_unemployed
                      \/ /\ last'.op = "firm_produce" /\ last'.who = w
                         /\ ~old.is_employed /\ last'.pre.is_employed
                         /\ last'.pre.weeks_unemployed = 0
                         /\ new.weeks_unemployed = 0]_vars

\* A worker that had been unemployed for two weeks has been hired, and its
\* weeks_unemployed is 0.
C27_Witness ==
    /\ last.op = "hire"
    /\ ~last.pre.is_employed
    /\ last.pre.weeks_unemployed >= 2
    /\ worker_agents[last.who].is_employed
    /\ worker_agents[last.who].weeks_unemployed = 0

\* C28: in every reachable state, a worker that is not employed has wage 0
\* and no employer.
C28_UnemployedHasNoWage ==
    \A w \in Workers :
        ~worker_agents[w].is_employed =>
            worker_agents[w].wage = 0 /\ worker_agents[w].employer = NoFirm

\* A firm has fired a worker that had a wage: the worker is unemployed with
\* wage 0 and no employer.
C28_Witness ==
    /\ last.op = "firm_produce"
    /\ last.who \in Workers
    /\ last.pre.is_employed
    /\ last.pre.wage > 0
    /\ last.pre.employer = last.id
    /\ ~worker_agents[last.who].is_employed
    /\ worker_agents[last.who].wage = 0
    /\ worker_agents[last.who].employer = NoFirm

\* C29: a rejected hire attempt leaves state unchanged.  should_hire_worker
\* returns the world it was given whenever it returns False, for every
\* firm, candidate and draw, the firm at capacity included; and an
\* iteration of the hiring loop that hires nobody leaves every worker,
\* every firm and both partition lists as they were.
C29_RejectedHireChangesNothing ==
    /\ [](\A f \in Firms : \A id \in Workers : \A d \in UnitDraws :
          \A e \in MultiplierEnds, t \in TaxEnds, s \in ShareEnds :
             LET r == should_hire_worker(World, f, id, d, e, t, s)
             IN  /\ ~r.result => r.world = World
                 /\ Len(firm_agents[f].workers) >= firm_agents[f].max_workers => ~r.result)
    /\ [][last'.op = "no_hire" =>
            UNCHANGED <<worker_agents, firm_agents, employed_workers, unemployed_workers>>]_vars

\* A firm with room on its roster has rejected a candidate while a worker
\* is unemployed, and the other firm is at capacity.
C29_Witness ==
    /\ last.op = "no_hire"
    /\ Len(unemployed_workers) > 0
    /\ Len(firm_agents[last.id].workers) < firm_agents[last.id].max_workers
    /\ \E f \in Firms : Len(firm_agents[f].workers) >= firm_agents[f].max_workers

\* C30: is_bankrupt is monotone.  Every worker is constructed with
\* is_bankrupt false, and no step of the economy (a worker's step, a firm's
\* production and firing, a hire, a collect) takes a worker from bankrupt
\* to not bankrupt.
C30_BankruptIsMonotone ==
    /\ \A w \in DOMAIN ConstructedWorkers : ~ConstructedWorkers[w].is_bankrupt
    /\ [][\A w \in Workers :
            worker_agents[w].is_bankrupt => worker_agents'[w].is_bankrupt]_vars

\* A bankrupt worker in debt has stepped, has been hired and paid, and has
\* now been fired: it is still bankrupt.
C30_Witness ==
    /\ last.op = "firm_produce"
    /\ last.who \in Workers
    /\ last.pre.is_bankrupt
    /\ last.pre.is_employed
    /\ worker_agents[last.who].is_bankrupt
    /\ ~worker_agents[last.who].is_employed
    /\ worker_agents[last.who].total_wages_earned > 0
    /\ worker_agents[last.who].debt > 0

\* C31: calculate_financial_stress() returns and stores a value in [0, 1]
\* (0..1000 thousandths) for every worker of every reachable state, also
\* when the debt exceeds the debt capacity; for an unemployed worker the
\* value is at least 0.4; and the value a step stored is in that range.
C31_StressBounded ==
    /\ \A w \in Workers :
          LET stress == calculate_financial_stress(worker_agents[w]).financial_stress
          IN  /\ stress >= 0 /\ stress <= 1000
              /\ ~worker_agents[w].is_employed => stress >= 400
              /\ worker_agents[w].financial_stress >= 0
              /\ worker_agents[w].financial_stress <= 1000
    /\ Stepped /\ ~Before.is_employed => After.financial_stress >= 400

\* An unemployed worker whose debt exceeded its debt capacity has stepped:
\* the three contributions add up to more than 1 and the stored stress is 1.
C31_Witness ==
    /\ Stepped
    /\ ~Before.is_employed
    /\ Before.debt > Before.debt_capacity
    /\ StressSum(Before) > 1000
    /\ After.financial_stress = 1000

\* The transition is the firing decision of a firm's step.
FiringOp == last'.op \in {"firm_produce", "fire_decision"}

\* C32: in one step a firm fires at most one worker, only when its profit
\* is below -500 and its roster has more than 5 entries before the firing,
\* and it fires before it hires.  Every roster loses at most one entry in a
\* transition, and at most one worker loses its job; both happen only in
\* the firing decision of the firm concerned, which comes once in a firm's
\* step and before its hiring loop, with that firm's profit below -500 and
\* more than 5 entries on its roster before; the entry lost is one of the
\* fired worker.  The hiring loop that follows takes its candidates from
\* the unemployed list as the firing left it.
C32_AtMostOneFiringPerStep ==
    [][/\ \A f \in DOMAIN firm_agents :
             LET old == firm_agents[f].workers
                 new == firm_agents'[f].workers
             IN  /\ Len(new) >= Len(old) - 1
                 /\ Len(new) < Len(old) =>
                       /\ FiringOp /\ last'.id = f
                       /\ firm_agents'[f].profit < FireProfitThreshold
                       /\ Len(old) > FireRosterThreshold
                       /\ InSeq(old, last'.who)
                       /\ new = RemoveFirst(old, last'.who)
       /\ \A w \in DOMAIN worker_agents :
             worker_agents[w].is_employed /\ ~worker_agents'[w].is_employed =>
                FiringOp /\ last'.who = w
       /\ FiringOp /\ last'.who # 0 =>
             /\ Len(firm_agents'[last'.id].workers) = Len(firm_agents[last'.id].workers) - 1
             /\ InSeq(unemployed_workers', last'.who)
             /\ pc' \in {"hiring", "decide_hiring"} => hire_local' = unemployed_workers'
       /\ ~FiringOp => pc \in {"hiring", "decide_hiring"} \/ last'.op \notin {"hire", "no_hire"}
      ]_vars

\* A firm with profit below -500 and 6 workers fired one of them and, in
\* the hiring loop of the same step, has hired that worker again.
C32_Witness ==
    /\ pc = "decide"
    /\ steps = 1
    /\ last.op = "hire"
    /\ firm_agents[last.id].profit < FireProfitThreshold
    /\ ~last.pre.is_employed
    /\ worker_agents[last.who].is_employed
    /\ worker_agents[last.who].employer = last.id
    /\ \A w \in DOMAIN worker_agents : worker_agents[w].is_employed

\* C33: in one step a firm finalizes at most 3 hires, every hired candidate
\* was in the unemployed list when the hiring loop started, and the roster
\* grows by at most 3 entries in that step.  The hiring loop has at most 3
\* iterations; each hire takes its candidate from the loop's copy of the
\* unemployed list, a worker still in that list, and adds at most one
\* roster entry; in the first step of the economy, which every roster
\* enters empty, no roster has more than 3 entries.
C33_AtMostThreeHiresPerStep ==
    /\ [](hire_left <= HiresPerStep)
    /\ [](steps = 0 => \A f \in Firms : Len(Roster(f)) <= HiresPerStep)
    /\ [][last'.op = "hire" =>
            /\ InSeq(hire_local, last'.who)
            /\ InSeq(unemployed_workers, last'.who)
            /\ Len(firm_agents'[last'.id].workers) <= Len(firm_agents[last'.id].workers) + 1
         ]_vars

\* C34: when a firm hires an unemployed candidate, the gross pay credited
\* for the week is the hourly rate recorded times work_hours, the hourly
\* rate recorded is the weekly wage offer divided by work_hours, and so
\* the gross pay is a weekly wage offer of the firm for that candidate.
C34_GrossPayIsWeeklyOffer ==
    [][last'.op = "hire" /\ ~worker_agents[last'.who].is_employed =>
          LET old == worker_agents[last'.who]
              new == worker_agents'[last'.who]
              gross_pay == new.total_wages_earned - old.total_wages_earned
              offers == {calculate_worker_wage_offer(firm_agents[last'.id], worker_agents, old, e) :
                            e \in MultiplierEnds}
          IN  /\ gross_pay = new.wage * WorkHours
              /\ new.wage \in {o \div WorkHours : o \in offers}
              /\ gross_pay \in offers]_vars

\* The debt of the stepped worker once the week's interest is added to what
\* the needs phase left, the minimum payment on it, and what the step paid.
DebtWithInterest == AfterNeeds.debt + (AfterNeeds.debt * AfterNeeds.interest_rate) \div 52000
MinPayment == Max2((DebtWithInterest * 2) \div 100, MinPaymentFloor)
Paid == DebtWithInterest - After.debt

\* C35: the debt service of a worker with debt > 0, after the weekly
\* interest is added.  With wealth of at least max(0.02 * debt, 20) the
\* step pays: the minimum payment, or the whole debt when that is less than
\* 20; wealth and debt fall by the same amount and the debt is not negative.
\* With less wealth nothing is paid, the wealth is unchanged and the debt is
\* the old debt with its interest.
C35_DebtService ==
    Stepped /\ AfterNeeds.debt > 0 =>
        /\ After.debt >= 0
        /\ \E g \in GrowthDraws :
              After.wealth =
                 WealthGrowth(WealthDecay([AfterNeeds EXCEPT !.wealth = @ - Paid]), g).wealth
        /\ AfterNeeds.wealth >= MinPayment =>
              /\ Paid > 0
              /\ DebtWithInterest >= MinPaymentFloor => Paid = MinPayment
              /\ DebtWithInterest < MinPaymentFloor => Paid = DebtWithInterest /\ After.debt = 0
        /\ AfterNeeds.wealth < MinPayment =>
              /\ Paid = 0
              /\ After.debt = DebtWithInterest
              /\ After.debt > AfterNeeds.debt \/ DebtWithInterest = AfterNeeds.debt

\* An employed worker with a debt of 15, less than the minimum payment of
\* 20, and wealth to pay has stepped: it paid the whole debt with its
\* interest and no more.
C35_Witness ==
    /\ Stepped
    /\ Before.is_employed
    /\ Before.debt = 1500
    /\ AfterNeeds.wealth >= MinPayment
    /\ DebtWithInterest < MinPaymentFloor
    /\ After.debt = 0
    /\ After.wealth = AfterNeeds.wealth - DebtWithInterest

\* C36: get_exploitation_rate() returns surplus value / (surplus value +
\* wages paid) whenever that denominator is not 0, and 0 when it is 0; the
\* two fields are those of the firm's latest step.  In every state the
\* rate of every firm is the quotient, to the hundredth, when the
\* denominator is not 0 and is 0 when it is 0; the denominator is never
\* negative; and each firm step leaves surplus value and wages paid that
\* add up to the output of that step's roster, whatever the fields held
\* before.
C36_ExploitationRate ==
    /\ [](\A f \in Firms :
            LET surplus == firm_agents[f].total_surplus_value
                total_value == surplus + firm_agents[f].wages_paid
                rate == get_exploitation_rate(firm_agents[f])
            IN  /\ total_value >= 0
                /\ total_value # 0 =>
                      rate * total_value <= surplus * 100
                      /\ surplus * 100 < (rate + 1) * total_value
                /\ total_value = 0 => rate = 0)
    /\ [][pc = "firms" =>
            firm_agents'[cur].total_surplus_value + firm_agents'[cur].wages_paid
               = GrossOutput(cur)]_vars

\* A firm has stepped in two steps of the economy; in the latest its wages
\* exceeded its output, and its rate is negative.
C36_Witness ==
    /\ steps >= 1
    /\ pc = "collect"
    /\ \E f \in Firms :
          /\ firm_agents[f].total_surplus_value < 0
          /\ firm_agents[f].total_surplus_value + firm_agents[f].wages_paid > 0
          /\ get_exploitation_rate(firm_agents[f]) < 0

\* The worker w as a firm's production loop left it: the fired worker is
\* recorded as it was between the loop and the firing.
AfterLoop(w) == IF last'.who = w THEN last'.pre ELSE worker_agents'[w]

C39_UnmetNeedsBounded ==
    \A w \in Workers :
        LET unmet == get_unmet_needs(worker_agents[w])
        IN  /\ unmet >= 0
            /\ unmet <= worker_agents[w].basic_needs
            /\ unmet = worker_agents[w].basic_needs <=> worker_agents[w].wealth = 0
            /\ unmet = 0 <=> worker_agents[w].wealth >= worker_agents[w].basic_needs

\* A worker has stepped and is left with some wealth, less than its needs:
\* its unmet needs are strictly between 0 and basic_needs; another worker
\* has more wealth than its needs and none unmet.
C39_Witness ==
    /\ Stepped
    /\ After.wealth > 0
    /\ After.wealth < After.basic_needs
    /\ get_unmet_needs(After) = After.basic_needs - After.wealth
    /\ \E v \in Workers :
          /\ worker_agents[v].wealth > worker_agents[v].basic_needs
          /\ get_unmet_needs(worker_agents[v]) = 0

====
